---- MODULE Spec2Model ----
(***************************************************************************)
(* Model of the jobs-scraper streaming pipeline:                           *)
(*   - the retryable HTTP transport (utils.RetryableHTTPRequestImpl),      *)
(*   - the listing scanner (Scraper.ScrapeLinkedInJobsStreaming),          *)
(*   - the detail worker pool (pipeline.GetJobDescription),                *)
(*   - the orchestrator (JobPipeline.ProcessJobsStreaming).                *)
(* Goroutines are tasks with a program counter; channels are bounded       *)
(* sequences with a closed flag; the context is the flag `cancelled`.      *)
(***************************************************************************)
EXTENDS Integers, Sequences, FiniteSets, TLC

(***************************************************************************)
(* Bounds of the model.                                                    *)
(***************************************************************************)
\* largest RetryConfig.MaxRetries tried by the stand-alone transport client
MaxRetriesBound == 3
\* largest numPages argument handed to ProcessJobsStreaming
MaxNumPages == 1
\* the site lists at most MaxRecords items, MaxPerPage of them on a page
\* (25 on the real site: start = 25 * page)
MaxPerPage == 2
MaxRecords == 4
\* number of listing pages GetJobs asks the scanner for (the literal 10 of
\* ScrapeLinkedInJobsStreaming(context, 10, jobChan, ...), scaled down)
GetJobsPages == 2
\* capacity of jobChan and of jobDescriptionChan (make(chan ..., 100) in the
\* source, scaled down so that a full queue is reachable)
JobChanCap == 1
OutChanCap == 1
\* the site serves at most MaxOddItems items that lack a required field or
\* whose link has no trailing digit run
MaxOddItems == 1
\* longest batch the stand-alone repository client hands to SaveJobs
MaxBatch == 2
\* the clock of the stand-alone worker runs from 0 to MaxTime seconds
MaxTime == 4
\* number of jobs the stand-alone worker's caller puts on jobChan
MaxFeed == 2

(***************************************************************************)
(* Program constants.                                                      *)
(***************************************************************************)
\* delay := time.Second * 2   (seconds)
RetryDelay == 2
\* http.StatusOK, http.StatusMultipleChoices, http.StatusTooManyRequests
StatusOK == 200
StatusMultipleChoices == 300
StatusTooManyRequests == 429
\* const numWorkers = 3
NumWorkers == 3
\* config.MaxRetries = 3 (NewScraper's default, and the value main passes)
ScraperMaxRetries == 3
\* config.BaseDelay = 1s, config.MaxDelay = 30s (the same), in seconds
ScraperBaseDelay == 1
ScraperMaxDelay == 30
\* rate.NewLimiter(rate.Every(2*time.Second), 1): seconds between admissions
LimiterInterval == 2
\* pipeline.NewJobPipeline(scraper, 5, 1*time.Second): the numWorkers main
\* configures; stored in JobPipeline.numWorkers and read by nothing
PipelineNumWorkers == 5

VARIABLES
    cancelled,      \* ctx.Done() is closed
    maxRetries,     \* s.config.MaxRetries of the transport in use
    delayConfig,    \* s.config.BaseDelay and s.config.MaxDelay of it, in seconds
    call,           \* the stand-alone client's RetryableHTTPRequest call
    numPages,       \* the numPages argument of ProcessJobsStreaming
    opc,            \* orchestrator: position in ProcessJobsStreaming
    allJobs,        \* orchestrator: allJobs
    allJobDescriptions, \* orchestrator: allJobDescriptions
    runErr,         \* orchestrator: the value ProcessJobsStreaming returns
    jobsTable,      \* the rows of the database table jobs
    repoCall,       \* history: the stand-alone repository client's last SaveJobs
    now,            \* stand-alone jobDescriptionWorker: the time, in seconds
    readyAt,        \* per worker: the time its limiter has its next token
    wres,           \* per worker: result of jobDescriptionWorker
    resultChan,     \* buffer of the resultChan of jobDescriptionWorker
    fed,            \* history: number of jobs its caller put on jobChan
    iter,           \* history: per worker, the steps of its current iteration
    dbCalls,        \* history: number of calls of SaveJobs, SaveJobDescriptions,
                    \* and which of them returned an error
    spc,            \* scanner goroutine: position
    page,           \* scanner: loop variable i of ScrapeLinkedInJobsStreaming
    jobs,           \* scanner: jobs of the current page not yet sent
    scanErr,        \* scanner: the value ScrapeLinkedInJobsStreaming returns
    jobChan,        \* buffer of jobChan
    jobChanClosed,  \* number of close(jobChan) executed
    wpc,            \* per worker: position in the worker goroutine
    wjob,           \* per worker: loop variable job
    wdesc,          \* per worker: jd returned by ScrapeJobDescriptionWithContext
    emptyDoc,       \* history: some fetched detail document had no description
    outChan,        \* buffer of jobDescriptionChan
    outChanClosed,  \* number of close(jobDescriptionChan) executed
    closerPc,       \* the goroutine that runs wg.Wait(); close(...)
    panicked,       \* a goroutine sent on or closed a closed channel
    pageReqs,       \* history: page index of every listing request sent
    emitted,        \* history: jobs put on jobChan, in order
    served,         \* history: number of items the site has served
    odd,            \* history: the served items that are not well-formed
    siteOdd,        \* the number of items of the site that are not well-formed
    fate,           \* history: per emitted job, what the pool did with it
    failures        \* history: some fetch or parse failed

transportVars == <<maxRetries, delayConfig, call, pageReqs, failures>>
orchVars == <<numPages, opc, allJobs, allJobDescriptions, runErr, dbCalls,
             jobsTable>>
scanVars == <<spc, page, jobs, scanErr, emitted, served, odd, siteOdd>>
jobChanVars == <<jobChan, jobChanClosed>>
workerVars == <<wpc, wjob, wdesc, fate, emptyDoc>>
outChanVars == <<outChan, outChanClosed, closerPc>>

limitedVars == <<now, readyAt, wres, resultChan, fed, iter>>

vars == <<cancelled, repoCall, limitedVars, transportVars, orchVars, scanVars, jobChanVars,
          workerVars, outChanVars, panicked>>

(***************************************************************************)
(* Goroutines: the scanner goroutine of GetJobs and the worker goroutines  *)
(* of GetJobDescription.                                                   *)
(***************************************************************************)
WorkerNames == <<"w1", "w2", "w3", "w4", "w5">>
\* for range numWorkers { wg.Add(1); go func() {...}() }
Workers == {WorkerNames[i] : i \in 1..NumWorkers}

(***************************************************************************)
(* Errors.  An error value is what fmt.Errorf builds: a message, the       *)
(* status code formatted into it (0 when the message has none) and the     *)
(* error it wraps with %w (NoErr when it wraps none).                      *)
(***************************************************************************)
NoStatus == 0
NoErr == [msg |-> "nil", status |-> NoStatus]
\* err returned by client.Do for a connection failure or a timeout
NetErr == [msg |-> "network error", status |-> NoStatus]
\* err returned by client.Do when ctx is done; also ctx.Err()
CtxErr == [msg |-> "context canceled", status |-> NoStatus]
\* fmt.Errorf("rate limited: %d %s", resp.StatusCode, resp.Status)
RateLimitedErr(s) == [msg |-> "rate limited", status |-> s]

Failure(m, s, w) == [kind |-> "error", msg |-> m, status |-> s, wraps |-> w]
\* return resp, nil
Success(s) == [kind |-> "response", msg |-> "", status |-> s, wraps |-> NoErr]
\* fmt.Errorf("failed to create request: %w", err)
CreateRequestErr == Failure("failed to create request", NoStatus,
                            [msg |-> "invalid url", status |-> NoStatus])
\* fmt.Errorf("request failed %d: %s", resp.StatusCode, resp.Status)
RequestFailedErr(s) == Failure("request failed", s, NoErr)
\* return nil, ctx.Err()
CancelledErr == Failure(CtxErr.msg, NoStatus, NoErr)
\* (variant: the last error formatted away instead of wrapped)
ExhaustedErrNoCause(last) == Failure("all retry attempts failed, last error", NoStatus, NoErr)

\* fmt.Errorf("all retry attempts failed, last error: %w", lastErr)
ExhaustedErr(last) == Failure("all retry attempts failed, last error", NoStatus, last)
NoResult == [kind |-> "none", msg |-> "", status |-> NoStatus, wraps |-> NoErr]

\* the integers an error value carries in its chain of messages
ErrNumbers(e) ==
    (IF e.status # NoStatus THEN {e.status} ELSE {}) \cup
    (IF e.wraps.status # NoStatus THEN {e.wraps.status} ELSE {})

(***************************************************************************)
(* What one client.Do(req) can produce: a transport error, or a response   *)
(* with a status code.                                                     *)
(***************************************************************************)
Statuses == {200, 204, 299, 300, 404, 429, 500, 503}
Outcomes == {[err |-> e, status |-> NoStatus] : e \in {NetErr}} \cup
            {[err |-> NoErr, status |-> s] : s \in Statuses}

\* what client.Do produces during a run of the pipeline: a success or a
\* terminal status (or a context error, once ctx is done)
PipeStatuses == {200, 503}
PipeOutcomes == {[err |-> NoErr, status |-> st] : st \in PipeStatuses}

\* the outcome of client.Do(req) when ctx is already done
CtxOutcome == [err |-> CtxErr, status |-> NoStatus]

(***************************************************************************)
(* Request headers.  An http.Header is a map from header names to values;  *)
(* it is modelled as a function from names to the first value of each.     *)
(***************************************************************************)
NoHeader == [n \in {} |-> ""]
\* http.Header.Get: the value of the name, "" when the map has no such name
Get(h, k) == IF k \in DOMAIN h THEN h[k] ELSE ""
\* http.Header.Set: the name's value replaced
Set(h, k, v) == [n \in DOMAIN h \cup {k} |-> IF n = k THEN v ELSE h[n]]

\* the value of req.Header.Set("User-Agent", "Mozilla/5.0 (Windows NT ...")
UserAgent == "Mozilla/5.0"

\* for _, header := range headers {
\*     req.Header.Set(header.Get("Key"), header.Get("Value")) }
RECURSIVE MergeHeaders(_, _)
MergeHeaders(req, headers) ==
    IF headers = <<>> THEN req
    ELSE MergeHeaders(Set(req, Get(Head(headers), "Key"), Get(Head(headers), "Value")),
                      Tail(headers))

\* the header map of the request built by one iteration of the loop
RequestHeaders(headers) ==
    MergeHeaders(Set(NoHeader, "User-Agent", UserAgent), headers)

\* client.Do refuses a request that has a header with an empty name
\* ("net/http: invalid header field name") without sending it
ValidHeaderFieldName(k) == k # ""
InvalidHeaderErr == [msg |-> "invalid header field name", status |-> NoStatus]
InvalidHeaderOutcome == [err |-> InvalidHeaderErr, status |-> NoStatus]

\* the `headers` arguments a caller can pass: nil (what the scraper passes),
\* one header map with a name and its value, one header map that has the
\* entries "Key" and "Value", and the same two for the name User-Agent
CallerHeaders ==
    {<<>>,
     <<"Accept" :> "text/html">>,
     <<("Key" :> "Accept") @@ ("Value" :> "text/html")>>,
     <<"User-Agent" :> "curl">>,
     <<("Key" :> "User-Agent") @@ ("Value" :> "curl")>>}

\* pc, url validity, loop variable `attempt`, `lastErr`, the return value
\* `result`; history of the call: the attempt numbers for which a request was
\* handed to client.Do (sent), what client.Do produced (seen), the backoff
\* delays begun (delays)
\* delays begun (delays); the `headers` argument and, as history, the header
\* map of every request handed to client.Do (reqs)
IdleCall == [pc |-> "idle", urlOk |-> TRUE, attempt |-> 0, lastErr |-> NoErr,
             sent |-> <<>>, seen |-> <<>>, delays |-> <<>>, result |-> NoResult,
             headers |-> <<>>, reqs |-> <<>>]

\* entry of RetryableHTTPRequest: var lastErr error; attempt := 0
StartCall(ok) == [IdleCall EXCEPT !.pc = "attempt", !.urlOk = ok]
\* the same with a `headers` argument
StartCallWith(ok, hs) == [StartCall(ok) EXCEPT !.headers = hs]

\* resp.StatusCode >= http.StatusOK && resp.StatusCode < http.StatusMultipleChoices
IsSuccess(s) == s >= StatusOK /\ s < StatusMultipleChoices
\* (variant: server errors retried as well)
IsRateLimitedOrServerError(s) == s = StatusTooManyRequests \/ s >= 500

\* resp.StatusCode == http.StatusTooManyRequests
IsRateLimited(s) == s = StatusTooManyRequests
\* for attempt := 0; attempt <= s.config.MaxRetries; attempt++
LoopContinues(attempt, mr) == attempt <= mr
\* if attempt < s.config.MaxRetries
RetryRemains(attempt, mr) == attempt < mr

\* the state of call c after its loop body ended attempt c.attempt with the
\* retryable error e
AfterRetryable(c, e, mr) ==
    IF RetryRemains(c.attempt, mr)
    THEN [c EXCEPT !.lastErr = e, !.pc = "backoff",
                   !.delays = Append(@, RetryDelay)]
    ELSE IF LoopContinues(c.attempt + 1, mr)
         THEN [c EXCEPT !.lastErr = e, !.attempt = @ + 1]
         ELSE [c EXCEPT !.lastErr = e, !.attempt = @ + 1, !.pc = "done",
                        !.result = ExhaustedErr(e)]

\* one iteration of the loop up to the backoff wait, for the outcome o of
\* client.Do
AttemptStep(c, o, mr, ctxDone) ==
    IF ~LoopContinues(c.attempt, mr)
    THEN [c EXCEPT !.pc = "done", !.result = ExhaustedErr(c.lastErr)]
    ELSE IF ~c.urlOk
    THEN [c EXCEPT !.pc = "done", !.result = CreateRequestErr]
    ELSE LET req == RequestHeaders(c.headers)
             valid == \A n \in DOMAIN req : ValidHeaderFieldName(n)
             seenNow == IF ~valid THEN InvalidHeaderOutcome
                        ELSE IF ctxDone THEN CtxOutcome ELSE o
             d == [c EXCEPT !.sent = Append(@, c.attempt),
                            !.seen = Append(@, seenNow),
                            !.reqs = Append(@, req)] IN
         IF ~valid THEN AfterRetryable(d, InvalidHeaderErr, mr)
         ELSE IF ctxDone THEN AfterRetryable(d, CtxErr, mr)
         ELSE IF o.err # NoErr THEN AfterRetryable(d, o.err, mr)
         ELSE IF IsSuccess(o.status)
              THEN [d EXCEPT !.pc = "done", !.result = Success(o.status)]
         ELSE IF IsRateLimited(o.status)
              THEN AfterRetryable(d, RateLimitedErr(o.status), mr)
         ELSE [d EXCEPT !.pc = "done", !.result = RequestFailedErr(o.status)]

\* (variant: an uninterruptible time.Sleep(delay))
BackoffAlwaysExpires(ctxDone) == TRUE

\* case <-time.After(delay): the wait can end this way only while ctx.Done()
\* has not been closed (a goroutine parked in select is woken by the first
\* of its cases to become ready)
BackoffCanExpire(ctxDone) == ~ctxDone

\* case <-time.After(delay): continue with the next attempt (attempt++)
BackoffExpireStep(c) == [c EXCEPT !.pc = "attempt", !.attempt = @ + 1]
\* case <-ctx.Done(): return nil, ctx.Err()
BackoffCancelStep(c) == [c EXCEPT !.pc = "done", !.result = CancelledErr]

\* what the outcome o of client.Do means for the run: a failed attempt
IsFailure(o) == o.err # NoErr \/ ~IsSuccess(o.status)

(***************************************************************************)
(* The stand-alone transport: a client makes one call of                   *)
(* RetryableHTTPRequest, observed step by step.                            *)
(***************************************************************************)
pipelineVars == <<pageReqs, failures, orchVars, scanVars, jobChanVars,
                  workerVars, outChanVars, panicked>>

ClientCall ==
    /\ call.pc = "idle"
    /\ \E ok \in BOOLEAN, hs \in CallerHeaders : call' = StartCallWith(ok, hs)
    /\ UNCHANGED <<cancelled, repoCall, limitedVars, maxRetries, delayConfig, pipelineVars>>

TAttempt(o) ==
    /\ call.pc = "attempt"
    /\ call' = AttemptStep(call, o, maxRetries, cancelled)
    /\ UNCHANGED <<cancelled, repoCall, limitedVars, maxRetries, delayConfig, pipelineVars>>

TBackoffExpire ==
    /\ call.pc = "backoff"
    /\ BackoffCanExpire(cancelled)
    /\ call' = BackoffExpireStep(call)
    /\ UNCHANGED <<cancelled, repoCall, limitedVars, maxRetries, delayConfig, pipelineVars>>

TBackoffCancel ==
    /\ call.pc = "backoff"
    /\ cancelled
    /\ call' = BackoffCancelStep(call)
    /\ UNCHANGED <<cancelled, repoCall, limitedVars, maxRetries, delayConfig, pipelineVars>>

\* the caller of ctx's cancel function
Cancel ==
    /\ ~cancelled
    /\ cancelled' = TRUE
    /\ UNCHANGED <<repoCall, limitedVars, maxRetries, delayConfig, call, pipelineVars>>

(***************************************************************************)
(* A whole call of RetryableHTTPRequest, as its caller sees it: the set of *)
(* states in which a call that is in state c can return, for the outcomes  *)
(* `outs` of client.Do.  ctxDone: ctx is done already; mayCancel: ctx may  *)
(* become done while the call runs.                                        *)
(***************************************************************************)
RECURSIVE CallReturns(_, _, _, _, _)
CallReturns(c, outs, mr, ctxDone, mayCancel) ==
    IF c.pc = "done" THEN {c}
    ELSE (IF mayCancel /\ ~ctxDone
          THEN CallReturns(c, outs, mr, TRUE, mayCancel) ELSE {})
         \cup
         (IF c.pc = "attempt"
          THEN UNION {CallReturns(AttemptStep(c, o, mr, ctxDone), outs, mr,
                                  ctxDone, mayCancel) : o \in outs}
          ELSE IF BackoffCanExpire(ctxDone)
               THEN CallReturns(BackoffExpireStep(c), outs, mr, ctxDone, mayCancel)
               ELSE CallReturns(BackoffCancelStep(c), outs, mr, ctxDone, mayCancel))

\* some attempt of the returned call r failed
CallFailed(r) ==
    \/ r.result.kind = "error"
    \/ \E i \in 1..Len(r.seen) : IsFailure(r.seen[i])

\* s followed by n copies of x
RECURSIVE AppendN(_, _, _)
AppendN(s, x, n) == IF n = 0 THEN s ELSE AppendN(Append(s, x), x, n - 1)

(***************************************************************************)
(* Listing pages.  An item of a listing page is what the selectors of      *)
(* ScrapeJobsWithContext read from one li > div.base-card: whether title,  *)
(* company, location and link are all non-empty, and the number that the   *)
(* trailing digit run of the link's last path segment spells (0 when the   *)
(* link has none).                                                         *)
(***************************************************************************)
\* what the site can put in one item: all four required fields or not, a link
\* whose last path segment ends in digits or not
ItemKinds == [complete : BOOLEAN, hasDigits : BOOLEAN]
WellFormed(kind) == kind.complete /\ kind.hasDigits

\* the items of listing page p as the site serves them, one per entry of
\* kinds; the links that end in digits are pairwise distinct
PageItems(p, kinds) ==
    [i \in 1..Len(kinds) |->
        [complete |-> kinds[i].complete,
         digits |-> IF kinds[i].hasDigits THEN p * MaxPerPage + i ELSE 0,
         page |-> p, idx |-> i]]

\* extractJobIDFromURL followed by strconv.ParseInt: 0 when either fails
JobIDOf(item) == item.digits

\* the job built from one item; page and idx stand for title, company,
\* location and link, which tell two jobs of a run apart
JobOf(item) == [id |-> JobIDOf(item), page |-> item.page, idx |-> item.idx]

\* (variant: the jobs kept, last item of the page first)
RECURSIVE ParsePageReversed(_)
ParsePageReversed(items) ==
    IF items = <<>> THEN <<>>
    ELSE LET item == Head(items) IN
         ParsePageReversed(Tail(items)) \o (IF item.complete THEN <<JobOf(item)>> ELSE <<>>)

\* doc.Find("li > div.base-card").Each(...): the jobs kept, in document order
RECURSIVE ParsePage(_)
ParsePage(items) ==
    IF items = <<>> THEN <<>>
    ELSE LET item == Head(items) IN
         (IF item.complete THEN <<JobOf(item)>> ELSE <<>>) \o ParsePage(Tail(items))

NoJob == [id |-> 0, page |-> 0, idx |-> 0]
NoFate == [pulls |-> 0, results |-> 0, fails |-> 0, drops |-> 0]

\* (variant: the transport's error formatted away instead of wrapped)
ScrapePageErrNoCause(e) == Failure("error scraping page", NoStatus, NoErr)

\* fmt.Errorf("error scraping page %d: %w", i, err)
ScrapePageErr(e) == Failure("error scraping page", NoStatus,
                            [msg |-> e.msg, status |-> e.status])
NoError == [kind |-> "nil", msg |-> "", status |-> NoStatus, wraps |-> NoErr]

(***************************************************************************)
(* Scanner goroutine: GetJobs runs ScrapeLinkedInJobsStreaming and closes  *)
(* jobChan when it returns (defer close(jobChan)).                         *)
(***************************************************************************)
\* (variant: GetJobs without its defer close(jobChan))
ScanReturnNoClose(e) ==
    /\ spc' = "exit"
    /\ scanErr' = e
    /\ UNCHANGED <<jobChanClosed, panicked>>

\* the return of ScrapeLinkedInJobsStreaming with value e, and the deferred close
ScanReturn(e) ==
    /\ spc' = "exit"
    /\ scanErr' = e
    /\ jobChanClosed' = jobChanClosed + 1
    /\ panicked' = (panicked \/ jobChanClosed > 0)

\* for i := range numPages { select { case <-ctx.Done(): ... default: ... } }
\* up to the call of RetryableHTTPRequest in ScrapeJobsWithContext
ScanLoopOf(n) ==
    /\ spc = "loop"
    /\ IF page >= n THEN ScanReturn(NoError)
       ELSE IF cancelled THEN ScanReturn(CancelledErr)
       ELSE /\ spc' = "fetch"
            /\ UNCHANGED <<scanErr, jobChanClosed, panicked>>
    /\ UNCHANGED <<cancelled, repoCall, limitedVars, transportVars, orchVars, page, jobs, emitted,
                   served, odd, siteOdd, jobChan, workerVars, outChanVars>>

\* GetJobs: scraperService.ScrapeLinkedInJobsStreaming(context, 10, jobChan, ...)
ScanLoop == ScanLoopOf(GetJobsPages)

\* the numbers of items listing page p can hold: the site lists its items
\* MaxPerPage to a page, so a page holds items only if every page before it
\* was full
PageSizes(p) ==
    {k \in 0..MaxPerPage : /\ k <= MaxRecords - served
                           /\ k > 0 => served = p * MaxPerPage}

\* the pages listing page p can be: siteOdd items of the site are not
\* well-formed
OddOf(items) == {items[i] : i \in {n \in 1..Len(items) :
                                      ~(items[n].complete /\ items[n].digits # 0)}}
Pages(p) ==
    UNION {{PageItems(p, kinds) : kinds \in
              {ks \in [1..k -> ItemKinds] :
                 Cardinality(odd) + Cardinality({i \in 1..k : ~WellFormed(ks[i])})
                    <= siteOdd}} : k \in PageSizes(p)}

\* ScrapeJobsWithContext from the return of RetryableHTTPRequest on, for the
\* returned call r and a page holding items
ScanFetchedWith(r, items) ==
    /\ pageReqs' = AppendN(pageReqs, page, Len(r.sent))
    /\ IF r.result.kind = "error" THEN
          /\ failures' = TRUE
          /\ ScanReturn(ScrapePageErr(r.result))
          /\ UNCHANGED <<page, jobs, served, odd>>
       ELSE
          /\ failures' = (failures \/ CallFailed(r)
                            \/ \E i \in 1..Len(items) : items[i].digits = 0)
          /\ served' = served + Len(items)
          /\ odd' = odd \cup OddOf(items)
          /\ LET found == ParsePage(items) IN
               IF found = <<>>
               THEN /\ page' = page + 1
                    /\ spc' = "loop"
                    /\ jobs' = <<>>
               ELSE /\ page' = page
                    /\ spc' = "emit"
                    /\ jobs' = found
          /\ UNCHANGED <<scanErr, jobChanClosed, panicked>>

ScanFetched ==
    /\ spc = "fetch"
    /\ \E r \in CallReturns(StartCall(TRUE), PipeOutcomes, maxRetries, FALSE, cancelled) :
         \E items \in Pages(page) : ScanFetchedWith(r, items)
    /\ UNCHANGED <<cancelled, repoCall, limitedVars, maxRetries, delayConfig, call, orchVars, emitted, siteOdd,
                   jobChan, workerVars, outChanVars>>

\* (variant: a send that goes through although the buffer is full)
ScanEmitSendUnbounded ==
    /\ spc = "emit"
    /\ jobChan' = Append(jobChan, Head(jobs))
    /\ emitted' = Append(emitted, Head(jobs))
    /\ fate' = [j \in DOMAIN fate \cup {Head(jobs)} |->
                  IF j \in DOMAIN fate THEN fate[j] ELSE NoFate]
    /\ jobs' = Tail(jobs)
    /\ IF Tail(jobs) = <<>>
       THEN page' = page + 1 /\ spc' = "loop"
       ELSE page' = page /\ spc' = "emit"
    /\ UNCHANGED <<cancelled, repoCall, limitedVars, transportVars, orchVars,
                   scanErr, served, odd, siteOdd, jobChanClosed, wpc, wjob,
                   wdesc, emptyDoc, outChanVars, panicked>>

\* select { ... case jobChan <- job: }
ScanEmitSend ==
    /\ spc = "emit"
    /\ Len(jobChan) < JobChanCap
    /\ jobChan' = Append(jobChan, Head(jobs))
    /\ emitted' = Append(emitted, Head(jobs))
    /\ fate' = [j \in DOMAIN fate \cup {Head(jobs)} |->
                  IF j \in DOMAIN fate THEN fate[j] ELSE NoFate]
    /\ jobs' = Tail(jobs)
    /\ IF Tail(jobs) = <<>>
       THEN page' = page + 1 /\ spc' = "loop"
       ELSE page' = page /\ spc' = "emit"
    /\ UNCHANGED <<cancelled, repoCall, limitedVars, transportVars, orchVars, scanErr, served, odd,
                   siteOdd, jobChanClosed, wpc, wjob, wdesc, emptyDoc, outChanVars, panicked>>

\* select { case <-ctx.Done(): return ctx.Err() ... }
ScanEmitCancel ==
    /\ spc = "emit"
    /\ cancelled
    /\ ScanReturn(CancelledErr)
    /\ UNCHANGED <<cancelled, repoCall, limitedVars, transportVars, orchVars, page, jobs, emitted,
                   served, odd, siteOdd, jobChan, workerVars, outChanVars>>

(***************************************************************************)
(* Worker goroutines of GetJobDescription.                                 *)
(***************************************************************************)
Bump(f, j, field) == [f EXCEPT ![j][field] = @ + 1]

\* (variant: a loop that stops as soon as the channel is closed)
RangeEndsOnClose(buf, closed) == closed > 0

\* for x := range ch ends once ch is closed and its buffer is drained
RangeEnds(buf, closed) == buf = <<>> /\ closed > 0

\* (variant: a receive that takes the zero value of a closed channel for a job)
WorkerRecvIgnoresClose(w) ==
    /\ wpc[w] = "recv"
    /\ \/ /\ jobChan # <<>>
          /\ wjob' = [wjob EXCEPT ![w] = Head(jobChan)]
          /\ jobChan' = Tail(jobChan)
          /\ fate' = Bump(fate, Head(jobChan), "pulls")
       \/ /\ RangeEnds(jobChan, jobChanClosed)
          /\ UNCHANGED <<wjob, jobChan, fate>>
    /\ wpc' = [wpc EXCEPT ![w] = "check"]
    /\ UNCHANGED <<cancelled, repoCall, limitedVars, transportVars, orchVars, scanVars, jobChanClosed,
                   wdesc, emptyDoc, outChanVars, panicked>>

\* for job := range jobChan
WorkerRecv(w) ==
    /\ wpc[w] = "recv"
    /\ \/ /\ jobChan # <<>>
          /\ wjob' = [wjob EXCEPT ![w] = Head(jobChan)]
          /\ jobChan' = Tail(jobChan)
          /\ wpc' = [wpc EXCEPT ![w] = "check"]
          /\ fate' = Bump(fate, Head(jobChan), "pulls")
       \/ /\ RangeEnds(jobChan, jobChanClosed)
          /\ wpc' = [wpc EXCEPT ![w] = "exit"]
          /\ UNCHANGED <<wjob, jobChan, fate>>
    /\ UNCHANGED <<cancelled, repoCall, limitedVars, transportVars, orchVars, scanVars, jobChanClosed,
                   wdesc, emptyDoc, outChanVars, panicked>>

\* select { case <-context.Done(): return; default: }, then the call of
\* ScrapeJobDescriptionWithContext up to RetryableHTTPRequest
WorkerCheck(w) ==
    /\ wpc[w] = "check"
    /\ IF cancelled THEN
          /\ wpc' = [wpc EXCEPT ![w] = "exit"]
          /\ fate' = Bump(fate, wjob[w], "drops")
          /\ wjob' = [wjob EXCEPT ![w] = NoJob]
       ELSE
          /\ wpc' = [wpc EXCEPT ![w] = "fetch"]
          /\ UNCHANGED <<wjob, fate>>
    /\ UNCHANGED <<cancelled, repoCall, limitedVars, transportVars, orchVars, scanVars, jobChanVars,
                   wdesc, emptyDoc, outChanVars, panicked>>

\* the text parseHTMLContent can collect from the markup of a detail document:
\* nothing, white space only, or text with white space around it
Descriptions == {"", "  ", " text "}

\* strings.TrimSpace on these texts
TrimSpace(d) == CASE d = "  " -> ""
                  [] d = " text " -> "text"
                  [] OTHER -> d

\* jobDescription = strings.TrimSpace(jobDescription);
\* if jobDescription == "" { return ..., fmt.Errorf("job description not found") }
DescriptionNotFound(d) == TrimSpace(d) = ""

\* (variant: the worker's test on err inverted)
FetchFailedInverted(r, d) == ~(r.result.kind = "error" \/ DescriptionNotFound(d))

\* (variant: only a transport error counts, an empty description passes)
FetchFailedTransportOnly(r, d) == r.result.kind = "error"

\* err != nil after ScrapeJobDescriptionWithContext: the transport failed, or
\* parseJobDescription found no description ("job description not found")
FetchFailed(r, d) == r.result.kind = "error" \/ DescriptionNotFound(d)

\* (variant: a worker that returns when a fetch fails)
OnFetchErrorReturn(w) ==
    /\ wpc' = [wpc EXCEPT ![w] = "exit"]
    /\ fate' = Bump(fate, wjob[w], "fails")
    /\ wjob' = [wjob EXCEPT ![w] = NoJob]
    /\ UNCHANGED wdesc

\* (variant: a worker that sends the record on although its fetch failed)
OnFetchErrorSend(w) ==
    /\ wpc' = [wpc EXCEPT ![w] = "send"]
    /\ fate' = Bump(fate, wjob[w], "fails")
    /\ UNCHANGED <<wjob, wdesc>>

\* if err != nil { log.Printf("Error scraping job description: %v", err) }:
\* nothing is sent, the loop goes on to the next receive
OnFetchError(w) ==
    /\ wpc' = [wpc EXCEPT ![w] = "recv"]
    /\ fate' = Bump(fate, wjob[w], "fails")
    /\ wjob' = [wjob EXCEPT ![w] = NoJob]
    /\ UNCHANGED wdesc

\* ScrapeJobDescriptionWithContext from the return of RetryableHTTPRequest on,
\* and the if/else of the worker on its result, for the returned call r and
\* a document whose description is d
WorkerFetchedWith(w, r, d) ==
    /\ failures' = (failures \/ CallFailed(r) \/ DescriptionNotFound(d))
    /\ emptyDoc' = (emptyDoc \/ (r.result.kind # "error" /\ DescriptionNotFound(d)))
    /\ IF FetchFailed(r, d) THEN
          OnFetchError(w)
       ELSE
          /\ wpc' = [wpc EXCEPT ![w] = "send"]
          /\ wdesc' = [wdesc EXCEPT ![w] = TrimSpace(d)]
          /\ UNCHANGED <<wjob, fate>>

WorkerFetched(w) ==
    /\ wpc[w] = "fetch"
    /\ \E r \in CallReturns(StartCall(TRUE), PipeOutcomes, maxRetries, FALSE, cancelled) :
         \E d \in Descriptions : WorkerFetchedWith(w, r, d)
    /\ UNCHANGED <<cancelled, repoCall, limitedVars, maxRetries, delayConfig, call, pageReqs, orchVars, scanVars,
                   jobChanVars, outChanVars, panicked>>

\* (variant: the description owned by another identifier than the job's)
JobWithDescriptionOtherOwner(job, d) ==
    [Job |-> job, JobDescription |-> [JobID |-> job.id + 1, Description |-> d]]

\* models.JobWithDescription{Job: job, JobDescription: {JobID: job.ID, ...}}
JobWithDescription(job, d) ==
    [Job |-> job, JobDescription |-> [JobID |-> job.id, Description |-> d]]

\* jobDescriptionChan <- models.JobWithDescription{...}
WorkerSend(w) ==
    /\ wpc[w] = "send"
    /\ Len(outChan) < OutChanCap
    /\ outChan' = Append(outChan, JobWithDescription(wjob[w], wdesc[w]))
    /\ panicked' = (panicked \/ outChanClosed > 0)
    /\ fate' = Bump(fate, wjob[w], "results")
    /\ wpc' = [wpc EXCEPT ![w] = "recv"]
    /\ wjob' = [wjob EXCEPT ![w] = NoJob]
    /\ wdesc' = [wdesc EXCEPT ![w] = ""]
    /\ UNCHANGED <<cancelled, repoCall, limitedVars, transportVars, orchVars, scanVars, jobChanVars,
                   emptyDoc, outChanClosed, closerPc>>

\* (variant: a wait group that is released by the first wg.Done())
WaitGroupDoneByAny == \E w \in Workers : wpc[w] = "exit"

\* wg.Wait() returns once every worker has run its deferred wg.Done()
WaitGroupDone == \A w \in Workers : wpc[w] = "exit"

\* go func() { wg.Wait(); close(jobDescriptionChan) }()
Closer ==
    /\ closerPc = "wait"
    /\ WaitGroupDone
    /\ closerPc' = "done"
    /\ outChanClosed' = outChanClosed + 1
    /\ panicked' = (panicked \/ outChanClosed > 0)
    /\ UNCHANGED <<cancelled, repoCall, limitedVars, transportVars, orchVars, scanVars, jobChanVars,
                   workerVars, outChan>>

(***************************************************************************)
(* JobPipeline.jobDescriptionWorker, run on its own: a caller starts the   *)
(* worker on a jobChan and a resultChan, feeds and closes jobChan, drains  *)
(* resultChan and may cancel ctx, while time passes.                       *)
(***************************************************************************)
LimitedWorkers == {WorkerNames[1]}

\* JobDescriptionResult{Job: job, Description: description, Error: err}
JobDescriptionResult(job, d, failed) ==
    [Job |-> job, Description |-> IF failed THEN "" ELSE TrimSpace(d),
     Error |-> failed]
NoJobDescriptionResult == JobDescriptionResult(NoJob, "", FALSE)

\* what the steps of the stand-alone worker and its caller leave alone
limitedRest == <<cancelled, repoCall, transportVars, orchVars, scanVars, wdesc,
                 fate, emptyDoc, outChanVars, panicked>>

\* go p.jobDescriptionWorker(ctx, jobChan, resultChan), up to the for loop:
\* the limiter starts with its one token
WStart(w) ==
    /\ wpc[w] = "idle"
    /\ wpc' = [wpc EXCEPT ![w] = "select"]
    /\ readyAt' = [readyAt EXCEPT ![w] = now]
    /\ UNCHANGED <<limitedRest, jobChanVars, wjob, now, wres, resultChan, fed, iter>>

\* the caller sends the next job on jobChan
WFeed ==
    /\ jobChanClosed = 0
    /\ fed < MaxFeed
    /\ Len(jobChan) < JobChanCap
    /\ jobChan' = Append(jobChan, [id |-> fed + 1, page |-> 0, idx |-> fed + 1])
    /\ fed' = fed + 1
    /\ UNCHANGED <<limitedRest, jobChanClosed, wpc, wjob, now, readyAt, wres,
                   resultChan, iter>>

\* the caller closes jobChan
WCloseInput ==
    /\ jobChanClosed = 0
    /\ jobChanClosed' = 1
    /\ UNCHANGED <<limitedRest, jobChan, wpc, wjob, now, readyAt, wres,
                   resultChan, fed, iter>>

\* select { case <-ctx.Done(): return
\*          case job, ok := <-jobChan: if !ok { return } ... }
WSelect(w) ==
    /\ wpc[w] = "select"
    /\ \/ /\ cancelled
          /\ wpc' = [wpc EXCEPT ![w] = "exit"]
          /\ UNCHANGED <<wjob, jobChan, iter>>
       \/ /\ jobChan # <<>>
          /\ wjob' = [wjob EXCEPT ![w] = Head(jobChan)]
          /\ jobChan' = Tail(jobChan)
          /\ wpc' = [wpc EXCEPT ![w] = "wait"]
          /\ iter' = [iter EXCEPT ![w] = <<"pull">>]
       \/ /\ RangeEnds(jobChan, jobChanClosed)
          /\ wpc' = [wpc EXCEPT ![w] = "exit"]
          /\ UNCHANGED <<wjob, jobChan, iter>>
    /\ UNCHANGED <<limitedRest, jobChanClosed, now, readyAt, wres, resultChan, fed>>

\* (variant: no limiter.Wait before the fetch)
WWaitSkipped(w) ==
    /\ wpc[w] = "wait"
    /\ wpc' = [wpc EXCEPT ![w] = "fetch"]
    /\ UNCHANGED <<limitedRest, jobChanVars, wjob, now, readyAt, wres,
                   resultChan, fed, iter>>

\* if err := limiter.Wait(ctx); err != nil { return }, up to the timer of
\* Wait: an error when ctx is done, admission at once when the token is
\* there, otherwise a wait for it
WWait(w) ==
    /\ wpc[w] = "wait"
    /\ IF cancelled THEN
          /\ wpc' = [wpc EXCEPT ![w] = "exit"]
          /\ wjob' = [wjob EXCEPT ![w] = NoJob]
          /\ UNCHANGED <<readyAt, iter>>
       ELSE IF now >= readyAt[w] THEN
          /\ wpc' = [wpc EXCEPT ![w] = "fetch"]
          /\ readyAt' = [readyAt EXCEPT ![w] = now + LimiterInterval]
          /\ iter' = [iter EXCEPT ![w] = Append(@, "admit")]
          /\ UNCHANGED wjob
       ELSE
          /\ wpc' = [wpc EXCEPT ![w] = "delay"]
          /\ UNCHANGED <<wjob, readyAt, iter>>
    /\ UNCHANGED <<limitedRest, jobChanVars, now, wres, resultChan, fed>>

\* the timer of limiter.Wait: the reserved token comes due, or ctx is done
WDelay(w) ==
    /\ wpc[w] = "delay"
    /\ \/ /\ now >= readyAt[w]
          /\ wpc' = [wpc EXCEPT ![w] = "fetch"]
          /\ readyAt' = [readyAt EXCEPT ![w] = @ + LimiterInterval]
          /\ iter' = [iter EXCEPT ![w] = Append(@, "admit")]
          /\ UNCHANGED wjob
       \/ /\ cancelled
          /\ wpc' = [wpc EXCEPT ![w] = "exit"]
          /\ wjob' = [wjob EXCEPT ![w] = NoJob]
          /\ UNCHANGED <<readyAt, iter>>
    /\ UNCHANGED <<limitedRest, jobChanVars, now, wres, resultChan, fed>>

\* description, criteria, err := ScrapeJobDescriptionWithContext(ctx, job);
\* result := JobDescriptionResult{...}
WFetched(w) ==
    /\ wpc[w] = "fetch"
    /\ \E r \in CallReturns(StartCall(TRUE), PipeOutcomes, maxRetries, FALSE, cancelled) :
         \E d \in Descriptions :
            wres' = [wres EXCEPT ![w] = JobDescriptionResult(wjob[w], d, FetchFailed(r, d))]
    /\ wpc' = [wpc EXCEPT ![w] = "send"]
    /\ iter' = [iter EXCEPT ![w] = Append(@, "fetch")]
    /\ UNCHANGED <<limitedRest, jobChanVars, wjob, now, readyAt, resultChan, fed>>

\* select { case resultChan <- result: case <-ctx.Done(): return }
WSend(w) ==
    /\ wpc[w] = "send"
    /\ \/ /\ Len(resultChan) < OutChanCap
          /\ resultChan' = Append(resultChan, wres[w])
          /\ wpc' = [wpc EXCEPT ![w] = "select"]
          /\ iter' = [iter EXCEPT ![w] = Append(@, "emit")]
       \/ /\ cancelled
          /\ wpc' = [wpc EXCEPT ![w] = "exit"]
          /\ UNCHANGED <<resultChan, iter>>
    /\ wjob' = [wjob EXCEPT ![w] = NoJob]
    /\ UNCHANGED <<limitedRest, jobChanVars, now, readyAt, wres, fed>>

\* the caller receives from resultChan
WDrain ==
    /\ resultChan # <<>>
    /\ resultChan' = Tail(resultChan)
    /\ UNCHANGED <<limitedRest, jobChanVars, wpc, wjob, now, readyAt, wres, fed, iter>>

\* a second passes
Tick ==
    /\ now < MaxTime
    /\ now' = now + 1
    /\ UNCHANGED <<limitedRest, jobChanVars, wpc, wjob, readyAt, wres,
                   resultChan, fed, iter>>

(***************************************************************************)
(* The repository: JobRepository.SaveJobs on the table jobs.  A row is a   *)
(* job; the table has one row per id at most (jobs.id is the key that      *)
(* job_descriptions.job_id references and ON CONFLICT (id) names).         *)
(***************************************************************************)
\* jobMap := make(map[int64]models.Job)
EmptyJobMap == [id \in {} |-> NoJob]

\* (variant: the first job of an id kept instead of the last)
RECURSIVE JobMapFirstWins(_, _)
JobMapFirstWins(m, js) ==
    IF js = <<>> THEN m
    ELSE JobMapFirstWins([id \in DOMAIN m \cup {Head(js).id} |->
                             IF id \in DOMAIN m THEN m[id] ELSE Head(js)],
                         Tail(js))

\* for _, job := range jobs { jobMap[job.ID] = job }
RECURSIVE JobMapOf(_, _)
JobMapOf(m, js) ==
    IF js = <<>> THEN m
    ELSE JobMapOf([id \in DOMAIN m \cup {Head(js).id} |->
                      IF id = Head(js).id THEN Head(js) ELSE m[id]],
                  Tail(js))

\* for _, job := range jobMap { uniqueJobs = append(uniqueJobs, job) }: the
\* values of the map in any of the orders a map iteration can take
UniqueJobs(js) ==
    LET m == JobMapOf(EmptyJobMap, js)
        n == Cardinality(DOMAIN m) IN
    {[i \in 1..n |-> m[s[i]]] :
        s \in {t \in [1..n -> DOMAIN m] : \A i, j \in 1..n : t[i] = t[j] => i = j}}

\* one INSERT ... ON CONFLICT DO UPDATE whose rows propose the same id twice
\* is rejected by the database; so is any statement while the database is down
RepeatsId(rows) == \E i, j \in DOMAIN rows : i < j /\ rows[i].id = rows[j].id
ExecFails(dbOk, rows) == ~dbOk \/ RepeatsId(rows)

\* (variant: ON CONFLICT (id) DO NOTHING)
RECURSIVE UpsertKeepsOld(_, _)
UpsertKeepsOld(table, rows) ==
    IF rows = <<>> THEN table
    ELSE UpsertKeepsOld(IF \E r \in table : r.id = Head(rows).id
                        THEN table ELSE table \cup {Head(rows)},
                        Tail(rows))

\* INSERT INTO jobs ... ON CONFLICT (id) DO UPDATE SET title = EXCLUDED.title,
\* ...: every column of the row with that id is replaced
RECURSIVE Upsert(_, _)
Upsert(table, rows) ==
    IF rows = <<>> THEN table
    ELSE Upsert({r \in table : r.id # Head(rows).id} \cup {Head(rows)},
                Tail(rows))

\* fmt.Errorf("error inserting jobs: %v", err)
InsertJobsErr == [msg |-> "error inserting jobs", status |-> NoStatus]

\* SaveJobs(jobs) on `table`, its statement built from `rows`: the error it
\* returns and the table it leaves
SaveJobs(table, js, rows, dbOk) ==
    IF js = <<>> THEN [err |-> NoErr, table |-> table]
    ELSE IF ExecFails(dbOk, rows) THEN [err |-> InsertJobsErr, table |-> table]
    ELSE [err |-> NoErr, table |-> Upsert(table, rows)]

\* the jobs and batches of the stand-alone repository client
RepoJobs == [id : {1, 2}, title : {"a", "b"}]
Batches == UNION {[1..n -> RepoJobs] : n \in 0..MaxBatch}
NoSave == [batch |-> <<>>, rows |-> <<>>, dbOk |-> TRUE, err |-> NoErr,
           before |-> {}]

\* a client calls SaveJobs(batch) while the database is up or down
RepoSaveJobs(batch, dbOk) ==
    /\ \E rows \in UniqueJobs(batch) :
          LET out == SaveJobs(jobsTable, batch, rows, dbOk) IN
          /\ jobsTable' = out.table
          /\ repoCall' = [batch |-> batch, rows |-> rows, dbOk |-> dbOk,
                          err |-> out.err, before |-> jobsTable]
    /\ UNCHANGED <<cancelled, limitedVars, transportVars, numPages, opc, allJobs,
                   allJobDescriptions, runErr, dbCalls, scanVars, jobChanVars,
                   workerVars, outChanVars, panicked>>

(***************************************************************************)
(* Orchestrator: JobPipeline.ProcessJobsStreaming.                         *)
(***************************************************************************)
\* jobsChan := GetJobs(...); jobWithDescriptionChan := GetJobDescription(...)
OrchStart ==
    /\ opc = "call"
    /\ opc' = "range"
    /\ spc' = "loop"
    /\ wpc' = [w \in Workers |-> "recv"]
    /\ closerPc' = "wait"
    /\ UNCHANGED <<cancelled, repoCall, limitedVars, transportVars, numPages, allJobs,
                   allJobDescriptions, runErr, dbCalls, jobsTable, page, jobs, scanErr,
                   emitted, served, odd, siteOdd, jobChanVars, wjob, wdesc, fate, emptyDoc,
                   outChan, outChanClosed, panicked>>

\* for jobWithDescription := range jobWithDescriptionChan { ... }
OrchRecv ==
    /\ opc = "range"
    /\ \/ /\ outChan # <<>>
          /\ outChan' = Tail(outChan)
          /\ allJobs' = Append(allJobs, Head(outChan).Job)
          /\ allJobDescriptions' =
                Append(allJobDescriptions, Head(outChan).JobDescription)
          /\ UNCHANGED opc
       \/ /\ RangeEnds(outChan, outChanClosed)
          /\ opc' = "saveJobs"
          /\ UNCHANGED <<outChan, allJobs, allJobDescriptions>>
    /\ UNCHANGED <<cancelled, repoCall, limitedVars, transportVars, numPages, runErr, dbCalls,
                   jobsTable, scanVars,
                   jobChanVars, workerVars, outChanClosed, closerPc, panicked>>

\* SaveJobs, SaveJobDescriptions: an empty batch returns nil without touching
\* the database; otherwise the error of db.Exec, if any, is returned
SaveFails(dbOk, batch) == batch # <<>> /\ ~dbOk

\* (variant: the repository's error formatted away instead of wrapped)
SaveJobsErrNoCause == Failure("failed to save jobs to database", NoStatus, NoErr)

\* fmt.Errorf("failed to save jobs to database: %w", err)
SaveJobsErr == Failure("failed to save jobs to database", NoStatus,
                       [msg |-> "error inserting jobs", status |-> NoStatus])
\* fmt.Errorf("failed to save job descriptions: %w", err)
SaveDescriptionsErr == Failure("failed to save job descriptions", NoStatus,
                       [msg |-> "error saving job descriptions", status |-> NoStatus])

\* (variant: the error of SaveJobs kept but the run carried on)
OrchSaveJobsGoesOn(dbOk) ==
    /\ opc = "saveJobs"
    /\ dbCalls' = [dbCalls EXCEPT !.jobs = @ + 1,
                       !.failed = IF SaveFails(dbOk, allJobs) THEN @ \cup {"jobs"} ELSE @]
    /\ opc' = "saveDescs"
    /\ runErr' = IF SaveFails(dbOk, allJobs) THEN SaveJobsErr ELSE runErr
    /\ \E rows \in UniqueJobs(allJobs) :
          jobsTable' = SaveJobs(jobsTable, allJobs, rows, dbOk).table
    /\ UNCHANGED <<cancelled, repoCall, limitedVars, transportVars, numPages, allJobs,
                   allJobDescriptions, scanVars, jobChanVars, workerVars,
                   outChanVars, panicked>>

\* if err := jobRepo.SaveJobs(allJobs); err != nil { return ... }
OrchSaveJobs(dbOk) ==
    /\ opc = "saveJobs"
    /\ dbCalls' = [dbCalls EXCEPT !.jobs = @ + 1,
                       !.failed = IF SaveFails(dbOk, allJobs) THEN @ \cup {"jobs"} ELSE @]
    /\ IF ~SaveFails(dbOk, allJobs)
       THEN opc' = "saveDescs" /\ UNCHANGED runErr
       ELSE opc' = "returned" /\ runErr' = SaveJobsErr
    /\ \E rows \in UniqueJobs(allJobs) :
          jobsTable' = SaveJobs(jobsTable, allJobs, rows, dbOk).table
    /\ UNCHANGED <<cancelled, repoCall, limitedVars, transportVars, numPages, allJobs,
                   allJobDescriptions, scanVars, jobChanVars, workerVars,
                   outChanVars, panicked>>

\* if err := jobDescRepo.SaveJobDescriptions(...); err != nil { return ... }
\* return nil
OrchSaveDescs(dbOk) ==
    /\ opc = "saveDescs"
    /\ opc' = "returned"
    /\ dbCalls' = [dbCalls EXCEPT !.descs = @ + 1,
                       !.failed = IF SaveFails(dbOk, allJobDescriptions)
                                  THEN @ \cup {"descs"} ELSE @]
    /\ runErr' = IF SaveFails(dbOk, allJobDescriptions)
                 THEN SaveDescriptionsErr ELSE NoError
    /\ UNCHANGED <<cancelled, repoCall, limitedVars, transportVars, numPages, allJobs,
                   allJobDescriptions, jobsTable, scanVars, jobChanVars, workerVars,
                   outChanVars, panicked>>

(***************************************************************************)
(* Specifications.                                                         *)
(***************************************************************************)
InitCommon ==
    /\ cancelled = FALSE
    /\ call = IdleCall
    /\ allJobs = <<>>
    /\ allJobDescriptions = <<>>
    /\ runErr = NoResult
    /\ spc = "idle"
    /\ page = 0
    /\ jobs = <<>>
    /\ scanErr = NoResult
    /\ jobChan = <<>>
    /\ jobChanClosed = 0
    /\ wpc = [w \in Workers |-> "idle"]
    /\ wjob = [w \in Workers |-> NoJob]
    /\ wdesc = [w \in Workers |-> ""]
    /\ emptyDoc = FALSE
    /\ outChan = <<>>
    /\ outChanClosed = 0
    /\ closerPc = "idle"
    /\ panicked = FALSE
    /\ pageReqs = <<>>
    /\ emitted = <<>>
    /\ served = 0
    /\ odd = {}
    /\ dbCalls = [jobs |-> 0, descs |-> 0, failed |-> {}]
    /\ jobsTable = {}
    /\ repoCall = NoSave
    /\ now = 0
    /\ readyAt = [w \in Workers |-> 0]
    /\ wres = [w \in Workers |-> NoJobDescriptionResult]
    /\ resultChan = <<>>
    /\ fed = 0
    /\ iter = [w \in Workers |-> <<>>]
    /\ fate = <<>>
    /\ failures = FALSE

\* the RetryConfig delays a caller of NewRetryableHTTPRequest can configure,
\* in seconds: the scraper's own, a longer base delay, a shorter maximum
DelayConfigs ==
    {[BaseDelay |-> ScraperBaseDelay, MaxDelay |-> ScraperMaxDelay],
     [BaseDelay |-> 5 * ScraperBaseDelay, MaxDelay |-> ScraperMaxDelay],
     [BaseDelay |-> ScraperBaseDelay, MaxDelay |-> ScraperBaseDelay]}

\* the stand-alone transport
InitT ==
    /\ InitCommon
    /\ maxRetries \in 0..MaxRetriesBound
    /\ delayConfig \in DelayConfigs
    /\ numPages = 0
    /\ opc = "none"
    /\ siteOdd = 0

NextT ==
    \/ ClientCall
    \/ \E o \in Outcomes : TAttempt(o)
    \/ TBackoffExpire
    \/ TBackoffCancel
    \/ Cancel

SpecT == InitT /\ [][NextT]_vars

\* the stand-alone repository: a client calls SaveJobs again and again
InitR ==
    /\ InitCommon
    /\ maxRetries = ScraperMaxRetries
    /\ delayConfig = [BaseDelay |-> ScraperBaseDelay, MaxDelay |-> ScraperMaxDelay]
    /\ numPages = 0
    /\ opc = "none"
    /\ siteOdd = 0

NextR == \E batch \in Batches, dbOk \in BOOLEAN : RepoSaveJobs(batch, dbOk)

SpecR == InitR /\ [][NextR]_vars

\* the stand-alone worker and its caller
NextW ==
    \/ \E w \in LimitedWorkers : WStart(w)
    \/ WFeed
    \/ WCloseInput
    \/ \E w \in LimitedWorkers : WSelect(w)
    \/ \E w \in LimitedWorkers : WWait(w)
    \/ \E w \in LimitedWorkers : WDelay(w)
    \/ \E w \in LimitedWorkers : WFetched(w)
    \/ \E w \in LimitedWorkers : WSend(w)
    \/ WDrain
    \/ Tick
    \/ Cancel

\* the worker is not started yet, the database plays no part
InitW == InitR

SpecW == InitW /\ [][NextW]_vars

\* a run of ProcessJobsStreaming by main
InitRun ==
    /\ InitCommon
    /\ maxRetries = ScraperMaxRetries
    /\ delayConfig = [BaseDelay |-> ScraperBaseDelay, MaxDelay |-> ScraperMaxDelay]
    /\ numPages \in 1..MaxNumPages
    /\ opc = "call"

\* a run against a site that may hold items that are not well-formed
Init ==
    /\ InitRun
    /\ siteOdd \in 0..MaxOddItems

\* a run against a site of well-formed items
InitWellFormed ==
    /\ InitRun
    /\ siteOdd = 0

ScannerStep == ScanLoop \/ ScanFetched \/ ScanEmitSend \/ ScanEmitCancel

WorkerStep(w) == WorkerRecv(w) \/ WorkerCheck(w) \/ WorkerFetched(w) \/ WorkerSend(w)

OrchStep ==
    \/ OrchStart
    \/ OrchRecv
    \/ \E dbOk \in BOOLEAN : OrchSaveJobs(dbOk)
    \/ \E dbOk \in BOOLEAN : OrchSaveDescs(dbOk)

Next ==
    \/ Cancel
    \/ ScannerStep
    \/ \E w \in Workers : WorkerStep(w)
    \/ Closer
    \/ OrchStep

Spec == Init /\ [][Next]_vars

\* a run against a site that may hold two items that are not well-formed,
\* such as two complete items whose links have no trailing digit run
InitTwoOdd ==
    /\ InitRun
    /\ siteOdd = MaxOddItems + 1

SpecTwoOdd == InitTwoOdd /\ [][Next]_vars

\* every goroutine that can take a step eventually takes one; the caller of
\* cancel is under no obligation
Fairness ==
    /\ WF_vars(ScannerStep)
    /\ \A w \in Workers : WF_vars(WorkerStep(w))
    /\ WF_vars(Closer)
    /\ WF_vars(OrchStep)

\* termination is checked for runs against a site of well-formed items
FairSpec == InitWellFormed /\ [][Next]_vars /\ Fairness

(***************************************************************************)
(* Properties of the transport (checked under SpecT).                      *)
(***************************************************************************)
\* this step handed a request to client.Do
Attempted == call.pc = "attempt" /\ Len(call'.seen) = Len(call.seen) + 1
LastSeen(c) == c.seen[Len(c.seen)]
TwoXX(o) == o.err = NoErr /\ o.status \in 200..299
RetryableOutcome(o) == o.err # NoErr \/ o.status = 429
\* the error an attempt with the retryable outcome o leaves behind
CauseOf(o) == IF o.err # NoErr THEN o.err
              ELSE [msg |-> "rate limited", status |-> o.status]

C6_AtMostMaxAttempts ==
    maxRetries = 3 => Len(call.sent) <= maxRetries

\* C7: with max attempts 3 and the responses 503, 503, 200 the call retries
\* each 503 and returns the 200 after exactly 2 backoff delays: a call that
\* has returned after a prefix of these responses has seen all three, begun 2
\* delays and returns the response.
C7_Retries503 ==
    (/\ maxRetries = 3
     /\ call.pc = "done"
     /\ Len(call.seen) \in 1..3
     /\ \A i \in 1..Len(call.seen) :
           /\ call.seen[i].err = NoErr
           /\ call.seen[i].status = <<503, 503, 200>>[i])
    => /\ Len(call.seen) = 3
       /\ call.result.kind = "response"
       /\ call.result.status = 200
       /\ Len(call.delays) = 2

\* C8: when ctx is done while the call waits in a backoff delay, the next step
\* of the call is its return with the context's error; no request is sent.
C8_CancelInterruptsBackoff ==
    [][(call.pc = "backoff" /\ cancelled /\ call' # call) =>
           /\ call'.pc = "done"
           /\ call'.result.kind = "error"
           /\ call'.result.msg = "context canceled"
           /\ call'.sent = call.sent
           /\ call'.seen = call.seen
           /\ call'.delays = call.delays]_vars

\* a call returned the context's error out of its second backoff wait
C8_Witness ==
    /\ call.pc = "done"
    /\ call.result.msg = "context canceled"
    /\ Len(call.delays) = 2
    /\ Len(call.sent) = 2

\* the call made every attempt its loop allows and each ended retryable
AllAttemptsRetryable ==
    /\ call.pc = "done"
    /\ Len(call.seen) = maxRetries + 1
    /\ \A i \in 1..Len(call.seen) : RetryableOutcome(call.seen[i])

\* C9 (as claimed): the aggregated error carries the last cause and the
\* number of attempts made.
C9_CarriesCauseAndCount ==
    AllAttemptsRetryable =>
        /\ call.result.kind = "error"
        /\ call.result.msg = "all retry attempts failed, last error"
        /\ call.result.wraps = CauseOf(LastSeen(call))
        /\ Len(call.sent) \in ErrNumbers(call.result)

\* C9 (amended): the aggregated error wraps the cause of the last attempt;
\* the number of attempts is not part of it.
C9_CarriesLastCause ==
    AllAttemptsRetryable =>
        /\ call.result.kind = "error"
        /\ call.result.msg = "all retry attempts failed, last error"
        /\ call.result.wraps = CauseOf(LastSeen(call))
        /\ call.result.wraps = call.lastErr
        /\ Len(call.sent) \notin ErrNumbers(call.result)

\* four attempts ended retryable, the last one differently from the first
C9_Witness ==
    /\ AllAttemptsRetryable
    /\ maxRetries = 3
    /\ call.seen[1].status = 429
    /\ call.seen[4].err.msg = "network error"
    /\ call.result.wraps.msg = "network error"

(***************************************************************************)
(* Properties of the pipeline (checked under Spec and FairSpec).           *)
(***************************************************************************)
Count(seq, x) == Cardinality({i \in 1..Len(seq) : seq[i] = x})
\* the number of places that hold job j: the input queue, a worker, the
\* output queue, the orchestrator's batch
Holders(j) ==
    Count(jobChan, j) + Cardinality({w \in Workers : wjob[w] = j})
    + Cardinality({i \in 1..Len(outChan) : outChan[i].Job = j})
    + Count(allJobs, j)
ConsumptionEnded == opc \in {"saveJobs", "saveDescs", "returned"}

\* C1: no job is pulled twice and no job gets two results; as long as nothing
\* failed and ctx is not done every job the scanner emitted is in exactly one
\* place between the input queue and the orchestrator's batch; and when the
\* orchestrator has consumed the pool's output the batch holds every emitted
\* job exactly once, with no identifier twice.
C1_ExactlyOnce ==
    /\ \A j \in DOMAIN fate : fate[j].pulls <= 1 /\ fate[j].results <= 1
    /\ (~failures /\ ~cancelled) =>
          \A i \in 1..Len(emitted) : Holders(emitted[i]) = 1
    /\ (~failures /\ ~cancelled /\ ConsumptionEnded) =>
          /\ Len(allJobs) = Len(emitted)
          /\ \A i \in 1..Len(emitted) :
                /\ Count(allJobs, emitted[i]) = 1
                /\ fate[emitted[i]].pulls = 1
                /\ fate[emitted[i]].results = 1
          /\ \A a, b \in 1..Len(allJobDescriptions) :
                a # b => allJobDescriptions[a].JobID # allJobDescriptions[b].JobID

\* a run without failure or cancellation ended with more jobs than workers
C1_Witness ==
    /\ ~failures /\ ~cancelled
    /\ opc = "returned"
    /\ Len(emitted) > NumWorkers
    /\ Len(allJobs) = Len(emitted)

\* C2: each queue is closed at most once and no goroutine sends on or closes a
\* closed channel; the output queue is closed only when every worker has
\* exited, the input queue only when the scanner has returned; nothing is put
\* on a queue once it is closed; and when the orchestrator's loop has ended
\* the output queue has been closed exactly once.
C2_ClosedOnceAfterWorkers ==
    /\ [](/\ outChanClosed <= 1
          /\ jobChanClosed <= 1
          /\ ~panicked
          /\ outChanClosed > 0 => \A w \in Workers : wpc[w] = "exit"
          /\ jobChanClosed > 0 => spc = "exit"
          /\ ConsumptionEnded => outChanClosed = 1)
    /\ [][/\ outChanClosed > 0 =>
                /\ Len(outChan') <= Len(outChan)
                /\ outChanClosed' = outChanClosed
          /\ jobChanClosed > 0 =>
                /\ Len(jobChan') <= Len(jobChan)
                /\ emitted' = emitted
                /\ jobChanClosed' = jobChanClosed]_vars

\* both queues are closed after the pool delivered results
C2_Witness ==
    /\ outChanClosed = 1
    /\ jobChanClosed = 1
    /\ Len(allJobs) >= 2
    /\ \A w \in Workers : wpc[w] = "exit"

AllStopped ==
    /\ spc = "exit"
    /\ \A w \in Workers : wpc[w] = "exit"
    /\ closerPc = "done"
    /\ jobChanClosed = 1
    /\ outChanClosed = 1
    /\ ConsumptionEnded

\* C3: once ctx is done, the scanner, every worker and the closing goroutine
\* eventually exit, both queues are closed and the orchestrator's loop ends.
C3_CancelledRunStops == cancelled ~> AllStopped

\* a cancelled run stopped: the scanner gave up a page it was emitting and a
\* worker gave up a job it had pulled
C3_Witness ==
    /\ cancelled
    /\ AllStopped
    /\ scanErr.msg = "context canceled"
    /\ jobs # <<>>
    /\ \E j \in DOMAIN fate : fate[j].drops = 1

\* C4: without cancellation a run terminates.  The scanner returns without
\* error only after the last page and then the input queue is closed; a worker
\* exits only when the input queue is closed and drained; when the
\* orchestrator's loop has ended every emitted job has been processed; and
\* ProcessJobsStreaming eventually returns.
C4_RunTerminates ==
    /\ []( ~cancelled =>
            /\ (spc = "exit" /\ scanErr.kind = "nil") =>
                  page = GetJobsPages /\ jobChanClosed = 1
            /\ \A w \in Workers :
                  wpc[w] = "exit" => jobChanClosed = 1 /\ jobChan = <<>>
            /\ ConsumptionEnded =>
                  \A i \in 1..Len(emitted) :
                     fate[emitted[i]].results + fate[emitted[i]].fails = 1 )
    /\ <>(cancelled \/ opc = "returned")

\* a run without cancellation returned after the scanner went through every
\* page and the pool processed its jobs
C4_Witness ==
    /\ ~cancelled
    /\ opc = "returned"
    /\ scanErr.kind = "nil"
    /\ Len(emitted) >= 3
    /\ Len(allJobs) >= 2

\* C10: a run of ProcessJobsStreaming with numPages = N, without failure or
\* cancellation, has sent exactly the listing requests for pages 0 .. N-1, in
\* that order, when the scanner returns.
C10_ExactlyNumPagesRequests ==
    (spc = "exit" /\ ~failures /\ ~cancelled) =>
        pageReqs = [i \in 1..numPages |-> i - 1]

(***************************************************************************)
(* Properties of the scanner's parsing and error handling (under Spec).    *)
(***************************************************************************)
\* the served item a job was built from is one of the odd items
FromOddItem(j) == \E it \in odd : it.page = j.page /\ it.idx = j.idx

\* C11: an item that lacks a required field, or whose link has no trailing
\* digit run, is dropped at parse time: no job built from it is ever put on
\* jobChan; and dropping it does not abort the scan: a scan ends with an
\* error only for a transport error or a done ctx, and a scan that ended
\* without error went through every page and emitted every well-formed item.
C11_OddItemsDropped ==
    /\ \A i \in 1..Len(emitted) : ~FromOddItem(emitted[i])
    /\ (spc = "exit" /\ scanErr.kind = "error") =>
          scanErr.msg \in {"error scraping page", "context canceled"}
    /\ (spc = "exit" /\ scanErr.kind = "nil") =>
          /\ page = GetJobsPages
          /\ Len(emitted) >= served - Cardinality(odd)

\* C12: when the transport call for listing page k returns an error, the scan
\* ends there with an error that wraps the transport's error (a terminal
\* status, the context's error, or the aggregate of exhausted retries): no
\* request was sent for a page after k, no job of page k was emitted, and
\* jobChan is closed; a scanner that has returned sends no request and emits
\* no job.
C12_TransportErrorAbortsScan ==
    /\ [](scanErr.msg = "error scraping page" =>
            /\ spc = "exit"
            /\ jobChanClosed = 1
            /\ pageReqs # <<>>
            /\ \A i \in 1..Len(pageReqs) : pageReqs[i] <= page
            /\ pageReqs[Len(pageReqs)] = page
            /\ \A i \in 1..Len(emitted) : emitted[i].page < page
            /\ jobs = <<>>
            /\ scanErr.kind = "error"
            /\ scanErr.wraps.msg \in {"request failed", "context canceled",
                                      "all retry attempts failed, last error"}
            /\ scanErr.wraps.msg = "request failed" <=> scanErr.wraps.status = 503
            /\ ~cancelled => scanErr.wraps.msg = "request failed")
    /\ [][spc = "exit" =>
            /\ pageReqs' = pageReqs
            /\ emitted' = emitted
            /\ scanErr' = scanErr
            /\ spc' = "exit"]_vars

\* the request for the second page failed with a 503 after the jobs of the
\* first page were emitted
C12_Witness ==
    /\ scanErr.msg = "error scraping page"
    /\ scanErr.wraps.status = 503
    /\ page = 1
    /\ Len(emitted) = 2
    /\ pageReqs = <<0, 1>>

(***************************************************************************)
(* Properties of the pool's failure handling (under Spec).                 *)
(***************************************************************************)
\* in this step worker w ended the fetch of its job with a failure
FetchFailsAt(w) ==
    /\ wpc[w] = "fetch"
    /\ wjob[w] \in DOMAIN fate
    /\ fate'[wjob[w]].fails = fate[wjob[w]].fails + 1
OthersUntouched(w) ==
    \A v \in Workers \ {w} :
        wpc'[v] = wpc[v] /\ wjob'[v] = wjob[v] /\ wdesc'[v] = wdesc[v]

C14_FailedNeverAccumulated ==
    /\ Len(allJobDescriptions) = Len(allJobs)
    /\ \A j \in DOMAIN fate : fate[j].fails > 0 =>
          /\ \A k \in 1..Len(allJobs) : allJobs[k] # j
          /\ \A k \in 1..Len(outChan) : outChan[k].Job # j
          /\ \A k \in 1..Len(jobChan) : jobChan[k] # j
          /\ \A w \in Workers : wjob[w] # j
          /\ (\A i \in 1..Len(emitted) : emitted[i] # j => emitted[i].id # j.id) =>
                \A k \in 1..Len(allJobDescriptions) :
                    allJobDescriptions[k].JobID # j.id
          /\ fate[j].pulls = 1
          /\ fate[j].fails = 1
          /\ fate[j].results = 0

\* both batches were handed to persistence without the job whose fetch failed
C14_Witness ==
    /\ opc = "returned"
    /\ runErr.kind = "nil"
    /\ dbCalls.jobs = 1 /\ dbCalls.descs = 1
    /\ Len(emitted) = 3
    /\ Len(allJobs) = 2
    /\ \E j \in DOMAIN fate : fate[j].fails = 1

(***************************************************************************)
(* Properties of the orchestrator's persistence (under Spec).              *)
(***************************************************************************)
\* the output queue is closed and consumed and no worker is alive
OutputDrained ==
    /\ outChanClosed = 1
    /\ outChan = <<>>
    /\ \A w \in Workers : wpc[w] = "exit"

\* C15 (as claimed): a run that has returned called SaveJobs exactly once and
\* SaveJobDescriptions exactly once, and each call was made only after the
\* output queue was closed and consumed, with no worker alive.
C15_EachPersistenceOnce ==
    /\ opc = "returned" => dbCalls.jobs = 1 /\ dbCalls.descs = 1
    /\ dbCalls.jobs + dbCalls.descs > 0 => OutputDrained

\* C15 (amended): a run that has returned called SaveJobs exactly once, and
\* SaveJobDescriptions exactly once if SaveJobs succeeded and not at all if
\* it failed; SaveJobDescriptions is never called before SaveJobs; and each
\* call was made only after the output queue was closed and consumed, with
\* no worker alive.
C15_PersistenceAfterDrain ==
    /\ dbCalls.jobs <= 1 /\ dbCalls.descs <= dbCalls.jobs
    /\ opc = "returned" => dbCalls.jobs = 1
    /\ runErr.msg = "failed to save jobs to database" =>
          opc = "returned" /\ dbCalls.descs = 0
    /\ (opc = "returned" /\ runErr.msg # "failed to save jobs to database") =>
          dbCalls.descs = 1
    /\ opc \in {"call", "range", "saveJobs"} => dbCalls.jobs + dbCalls.descs = 0
    /\ dbCalls.jobs + dbCalls.descs > 0 => OutputDrained

\* a run returned the error of SaveJobs without calling SaveJobDescriptions
C15_Witness ==
    /\ opc = "returned"
    /\ runErr.msg = "failed to save jobs to database"
    /\ dbCalls.jobs = 1 /\ dbCalls.descs = 0
    /\ Len(allJobDescriptions) >= 2

\* C16: when SaveJobs or SaveJobDescriptions returns an error the run returns
\* an error that wraps it, and the call is not made again; a run returns nil
\* only if both calls were made and neither returned an error.
C16_PersistenceFailureIsFatal ==
    /\ "jobs" \in dbCalls.failed =>
          /\ opc = "returned"
          /\ runErr.kind = "error"
          /\ runErr.msg = "failed to save jobs to database"
          /\ runErr.wraps.msg = "error inserting jobs"
          /\ dbCalls.jobs = 1
    /\ "descs" \in dbCalls.failed =>
          /\ opc = "returned"
          /\ runErr.kind = "error"
          /\ runErr.msg = "failed to save job descriptions"
          /\ runErr.wraps.msg = "error saving job descriptions"
          /\ dbCalls.descs = 1
    /\ (opc = "returned" /\ runErr.kind = "nil") =>
          /\ dbCalls.failed = {}
          /\ dbCalls.jobs = 1
          /\ dbCalls.descs = 1
    /\ opc = "returned" => runErr.kind \in {"nil", "error"}

\* a run returned the error of SaveJobDescriptions after SaveJobs succeeded
C16_Witness ==
    /\ opc = "returned"
    /\ dbCalls.failed = {"descs"}
    /\ dbCalls.jobs = 1
    /\ runErr.wraps.msg = "error saving job descriptions"
    /\ Len(allJobs) >= 1

(***************************************************************************)
(* Properties of cancellation (under Spec).                                *)
(***************************************************************************)
\* C17: once ctx is done the scanner starts no further page fetch and puts
\* no further job on jobChan.
C17_NoScanAfterCancel ==
    [][cancelled =>
          /\ ~(spc = "loop" /\ spc' = "fetch")
          /\ emitted' = emitted
          /\ Len(jobChan') <= Len(jobChan)]_vars

\* C18: once ctx is done no worker pulls a job from jobChan and no worker
\* completes the job it holds: nothing is taken from jobChan and no result is
\* put on the output queue.
C18_NoPullAfterCancel ==
    [][cancelled =>
          /\ \A w \in Workers : ~(wpc[w] = "recv" /\ wpc'[w] = "check")
          /\ Len(jobChan') >= Len(jobChan)
          /\ Len(outChan') <= Len(outChan)]_vars

\* the scan returned the context's error, bare or wrapped by the transport's
ScanCancelled ==
    /\ scanErr.kind = "error"
    /\ scanErr.msg = "context canceled" \/ scanErr.wraps.msg = "context canceled"

\* C19: a cancellation that fired during the run and ended the scan is
\* returned by the run: when the scanner had sent a listing request (ctx was
\* not done when the scan began) and then returned the context's error,
\* ProcessJobsStreaming does not return nil, and unless a persistence call
\* failed it returns the context's error.
C19_CancelPropagates ==
    (opc = "returned" /\ pageReqs # <<>> /\ ScanCancelled) =>
        /\ runErr.kind = "error"
        /\ dbCalls.failed = {} =>
              runErr.msg = "context canceled" \/ runErr.wraps.msg = "context canceled"

(***************************************************************************)
(* Properties of the pool on an empty input (under FairSpec).              *)
(***************************************************************************)
\* C20: as long as jobChan has carried no job, no worker holds a job or is
\* past its receive (none starts a fetch, so none could have been admitted by
\* a rate limiter), and nothing is on the output queue or in the batches; and
\* once jobChan is closed without having carried a job, the output queue is
\* eventually closed.
C20_EmptyInputClosesOutput ==
    /\ [](emitted = <<>> =>
            /\ \A w \in Workers : /\ wpc[w] \in {"idle", "recv", "exit"}
                                  /\ wjob[w] = NoJob
            /\ outChan = <<>>
            /\ allJobs = <<>>
            /\ allJobDescriptions = <<>>
            /\ outChanClosed > 0 => jobChanClosed = 1)
    /\ (emitted = <<>> /\ jobChanClosed = 1) ~>
          (emitted = <<>> /\ outChanClosed = 1 /\ opc = "returned")

\* a run that was not cancelled ended with both queues closed and no job
\* ever emitted: the site listed nothing
C20_Witness ==
    /\ ~cancelled /\ ~failures
    /\ emitted = <<>>
    /\ jobChanClosed = 1
    /\ outChanClosed = 1
    /\ opc = "returned"
    /\ dbCalls.jobs = 1

(***************************************************************************)
(* Properties of the pool's size (under Spec).                             *)
(***************************************************************************)
\* the worker goroutines the run has started
Started == {w \in Workers : wpc[w] # "idle"}
\* the workers with a detail fetch in flight
Fetching == {w \in Workers : wpc[w] = "fetch"}

\* C22: the pool a run starts has exactly the number of workers the pipeline
\* was configured with (numWorkers of NewJobPipeline), the same for the whole
\* run, and never more than that many detail fetches are in flight.
C22_PoolHasConfiguredWorkers ==
    /\ Cardinality(Fetching) <= PipelineNumWorkers
    /\ opc # "call" => Cardinality(Started) = PipelineNumWorkers

\* the DetailRecords accumulated by the orchestrator, in flight on the output
\* queue, or built by a worker that is about to send
DetailRecords ==
    {allJobDescriptions[i] : i \in DOMAIN allJobDescriptions}
      \cup {outChan[i].JobDescription : i \in DOMAIN outChan}
      \cup {JobWithDescription(wjob[w], wdesc[w]).JobDescription :
               w \in {v \in Workers : wpc[v] = "send"}}

\* C25: a detail document whose parsed description is empty is a parse
\* failure and yields no DetailRecord: every DetailRecord built, queued,
\* accumulated or handed to persistence has a non-empty description.
C25_NoEmptyDescription ==
    \A rec \in DetailRecords : TrimSpace(rec.Description) # ""

\* a run in which a document with an empty description was fetched and another
\* record was accumulated and handed to persistence
C25_Witness ==
    /\ emptyDoc
    /\ allJobDescriptions # <<>>
    /\ dbCalls.descs = 1

\* C28: the scanner puts records on its output queue in page-then-document
\* order: a record of an earlier page comes before every record of a later
\* page, and the records of one page come in their order in the page.
C28_PageThenDocumentOrder ==
    \A i, j \in DOMAIN emitted :
        i < j => \/ emitted[i].page < emitted[j].page
                 \/ /\ emitted[i].page = emitted[j].page
                    /\ emitted[i].idx < emitted[j].idx

\* two records of one page and a record of a later page have been emitted
C28_Witness ==
    /\ Len(emitted) >= 3
    /\ emitted[1].page = emitted[2].page
    /\ emitted[2].page # emitted[3].page

\* C29: the scanner emits each valid record as soon as it is extracted, before
\* the remaining items of the page are parsed: it never holds more parsed,
\* unsent records than the one it is sending.
C29_EmitsBeforeParsingRest == Len(jobs) <= 1

\* C30: every backoff delay waited between two attempts of a call is derived
\* from the call's RetryConfig: never shorter than its base delay and never
\* longer than its maximum delay.
C30_DelaysWithinConfig ==
    \A i \in DOMAIN call.delays :
        /\ delayConfig.BaseDelay <= call.delays[i]
        /\ call.delays[i] <= delayConfig.MaxDelay

\* the name/value pairs a caller supplies with one header map: the pairs of
\* the map, or the one pair spelled by its entries "Key" and "Value"
CallerPairs(h) ==
    IF DOMAIN h = {"Key", "Value"} THEN {<<h["Key"], h["Value"]>>}
    ELSE {<<n, h[n]>> : n \in DOMAIN h}

SuppliedPairs == UNION {CallerPairs(call.headers[k]) : k \in DOMAIN call.headers}

\* C26: every request handed to the HTTP client, on the first attempt and on
\* every retry, carries the fixed User-Agent header and every name/value pair
\* the caller supplied, the caller's value replacing the fixed one on the
\* same name.
C26_RequestsCarryHeaders ==
    \A i \in DOMAIN call.reqs :
        /\ "User-Agent" \in DOMAIN call.reqs[i]
        /\ \A p \in SuppliedPairs :
              p[1] \in DOMAIN call.reqs[i] /\ call.reqs[i][p[1]] = p[2]
        /\ (\A p \in SuppliedPairs : p[1] # "User-Agent")
              => call.reqs[i]["User-Agent"] = UserAgent

\* the ids of a batch, and the last job of the batch that has a given id
IdsOf(batch) == {batch[i].id : i \in DOMAIN batch}
LastOf(batch, id) ==
    batch[CHOOSE i \in DOMAIN batch :
            batch[i].id = id /\ \A j \in DOMAIN batch : j > i => batch[j].id # id]

\* C23: the batch written by SaveJobs holds each identifier of the
\* accumulated records exactly once, with the fields of the last record
\* that has this identifier.
C23_WrittenBatchDeduplicated ==
    /\ ~RepeatsId(repoCall.rows)
    /\ IdsOf(repoCall.rows) = IdsOf(repoCall.batch)
    /\ \A k \in DOMAIN repoCall.rows :
          repoCall.rows[k] = LastOf(repoCall.batch, repoCall.rows[k].id)

\* a batch with two records of one identifier and different titles was saved
C23_Witness ==
    /\ repoCall.err = NoErr
    /\ \E i, j \in DOMAIN repoCall.batch :
          /\ i < j
          /\ repoCall.batch[i].id = repoCall.batch[j].id
          /\ repoCall.batch[i].title # repoCall.batch[j].title
    /\ Len(repoCall.rows) = 1

\* C24: while the database is up, saving a record whose identifier is
\* already stored succeeds and leaves exactly one row for the identifier,
\* with the fields saved last; rows of other identifiers stay; saving the
\* same batch again leaves the table as it is.
C24_UpsertLaterTitleWins ==
    [][(<<jobsTable, repoCall>>' # <<jobsTable, repoCall>> /\ repoCall'.dbOk) =>
         /\ repoCall'.err = NoErr
         /\ \A id \in IdsOf(repoCall'.batch) :
               {r \in jobsTable' : r.id = id} = {LastOf(repoCall'.batch, id)}
         /\ \A r \in jobsTable : r.id \notin IdsOf(repoCall'.batch) => r \in jobsTable'
         /\ \A r \in jobsTable' : r.id \in IdsOf(repoCall'.batch) \/ r \in jobsTable
         /\ (repoCall.dbOk /\ repoCall.batch = repoCall'.batch) => jobsTable' = jobsTable
       ]_vars

\* a record was saved whose identifier was stored with another title, and
\* the table now holds the later title only
C24_Witness ==
    /\ repoCall.err = NoErr
    /\ \E old \in repoCall.before : \E k \in DOMAIN repoCall.batch :
          /\ repoCall.batch[k].id = old.id
          /\ repoCall.batch[k].title # old.title
          /\ old \notin jobsTable
          /\ repoCall.batch[k] \in jobsTable

\* s is an initial part of t
IsPrefix(s, t) == Len(s) <= Len(t) /\ \A i \in DOMAIN s : s[i] = t[i]

\* C21: every detail fetch of a pool worker is preceded by an admission of
\* the worker's own rate limiter: a worker starts a fetch only as the step
\* out of its limiter's wait.
C21_FetchAfterAdmission ==
    [][\A w \in Workers :
          (wpc[w] # "fetch" /\ wpc'[w] = "fetch") => wpc[w] \in {"wait", "delay"}]_vars

\* C27 (as stated): in each iteration of jobDescriptionWorker the steps are
\* admission, pull, fetch, emit in this order, and a worker that waits for
\* admission holds no pulled record.
C27_AdmissionThenPull ==
    \A w \in LimitedWorkers :
        /\ IsPrefix(iter[w], <<"admit", "pull", "fetch", "emit">>)
        /\ wpc[w] \in {"wait", "delay"} => wjob[w] = NoJob

\* C27 (amended): in each iteration of jobDescriptionWorker the steps are
\* pull, admission, fetch, emit in this order, and a worker waits for
\* admission only while it holds the record it pulled.
C27_PullThenAdmission ==
    \A w \in LimitedWorkers :
        /\ IsPrefix(iter[w], <<"pull", "admit", "fetch", "emit">>)
        /\ wpc[w] \in {"wait", "delay"} => wjob[w] # NoJob /\ iter[w] = <<"pull">>

\* a worker that has emitted a result waits for its limiter with the next
\* record in hand
C27_Witness ==
    \E w \in LimitedWorkers :
        /\ wpc[w] = "delay"
        /\ wjob[w] # NoJob
        /\ resultChan # <<>>

\* C31: the two accumulation collections of the orchestrator have the same
\* length and are index-aligned: the description at position k is owned by
\* the identifier of the job at position k, so every identifier of the
\* description batch occurs in the job batch.
C31_CollectionsAligned ==
    /\ Len(allJobs) = Len(allJobDescriptions)
    /\ \A k \in DOMAIN allJobDescriptions :
          allJobDescriptions[k].JobID = allJobs[k].id
    /\ {allJobDescriptions[k].JobID : k \in DOMAIN allJobDescriptions}
          \subseteq {allJobs[k].id : k \in DOMAIN allJobs}

\* two pairs with different identifiers have been accumulated
C31_Witness ==
    /\ Len(allJobs) >= 2
    /\ allJobs[1].id # allJobs[2].id

\* C32: SaveJobs is always called before SaveJobDescriptions; when SaveJobs
\* fails SaveJobDescriptions is not called in that run; so when the
\* descriptions are saved every job they refer to has its row in the table.
C32_ListingUpsertFirst ==
    /\ dbCalls.descs > 0 => dbCalls.jobs > 0 /\ "jobs" \notin dbCalls.failed
    /\ "jobs" \in dbCalls.failed => dbCalls.descs = 0
    /\ dbCalls.descs > 0 =>
          \A k \in DOMAIN allJobDescriptions :
              \E r \in jobsTable : r.id = allJobDescriptions[k].JobID

\* the descriptions of a non-empty batch were saved after their jobs
C32_Witness ==
    /\ dbCalls.descs = 1
    /\ dbCalls.jobs = 1
    /\ allJobDescriptions # <<>>
    /\ jobsTable # {}

\* the scan ended with the transport's error for a listing page, ctx not done
ScanAborted ==
    /\ scanErr.msg = "error scraping page"
    /\ scanErr.wraps.msg = "request failed"
    /\ ~cancelled

\* C33: when the scan is aborted by a transport failure on page k, jobChan
\* is closed all the same; the pool handles every job emitted from the
\* pages before k; and, the database being up, the run saves both batches
\* with the jobs whose fetch succeeded and returns nil: the scan's error is
\* not part of the run's result.
C33_AbortedScanStillSucceeds ==
    ScanAborted =>
        /\ jobChanClosed = 1
        /\ \A i \in DOMAIN emitted : emitted[i].page < page
        /\ runErr.kind = "error" => dbCalls.failed # {}
        /\ opc = "returned" =>
              /\ \A j \in DOMAIN fate :
                    /\ fate[j].pulls = 1
                    /\ fate[j].results + fate[j].fails = 1
                    /\ fate[j].drops = 0
              /\ {allJobs[k] : k \in DOMAIN allJobs}
                    = {j \in DOMAIN fate : fate[j].results = 1}
              /\ dbCalls.jobs = 1
              /\ dbCalls.failed = {} =>
                    /\ runErr.kind = "nil"
                    /\ dbCalls.descs = 1
                    /\ {r.id : r \in jobsTable} = {allJobs[k].id : k \in DOMAIN allJobs}

\* the request for the second page failed and the run returned nil after
\* saving a job of the first page
C33_Witness ==
    /\ ScanAborted
    /\ page = 1
    /\ opc = "returned"
    /\ runErr.kind = "nil"
    /\ allJobs # <<>>
    /\ jobsTable # {}

\* C34: the description batch handed to SaveJobDescriptions holds at most
\* one record per owning job identifier, whatever the listing pages hold.
C34_OneDescriptionPerJob ==
    \A i, j \in DOMAIN allJobDescriptions :
        allJobDescriptions[i].JobID = allJobDescriptions[j].JobID => i = j

\* C35: both hand-off queues are bounded by their capacity, and a producer
\* whose queue is full makes no progress while ctx is not done: the scanner
\* neither emits nor requests a page, a worker neither sends nor pulls.
C35_QueuesBounded ==
    /\ [](Len(jobChan) <= JobChanCap /\ Len(outChan) <= OutChanCap)
    /\ [][(spc = "emit" /\ Len(jobChan) = JobChanCap /\ ~cancelled) =>
            /\ spc' = spc /\ page' = page /\ jobs' = jobs
            /\ emitted' = emitted /\ pageReqs' = pageReqs
            /\ Len(jobChan') <= Len(jobChan)]_vars
    /\ [][\A w \in Workers :
            (wpc[w] = "send" /\ Len(outChan) = OutChanCap /\ ~cancelled) =>
                /\ wpc'[w] = wpc[w] /\ wjob'[w] = wjob[w] /\ wdesc'[w] = wdesc[w]
                /\ Len(outChan') <= Len(outChan)]_vars

\* both queues are full, the scanner has a job to send and a worker a result
C35_Witness ==
    /\ spc = "emit"
    /\ Len(jobChan) = JobChanCap
    /\ Len(outChan) = OutChanCap
    /\ \E w \in Workers : wpc[w] = "send"
    /\ ~cancelled

====
